---- MODULE Spec2Model ----
(***************************************************************************)
(* ClientWs (src/src/index.ts): a WebSocket client wrapper with automatic  *)
(* reconnection, a cache of messages sent while disconnected and           *)
(* request/response correlation through a unique key.                      *)
(*                                                                         *)
(* The browser side is modelled as far as the class can observe it: every  *)
(* `new WebSocket` is one entry of `sockets` holding its readyState, the   *)
(* handlers bound by bindEvents stay bound for the socket's whole life    *)
(* (the class never removes them), and every setTimeout callback is a      *)
(* pending step that fires at an arbitrary later moment.                   *)
(***************************************************************************)
EXTENDS Integers, Sequences, FiniteSets, TLC

\* Bounds of the exploration.
MaxSockets == 3       \* WebSocket objects created over one run
MaxSends == 3         \* sendMessage() calls made by the caller over one run
MaxAttempts == 5      \* cap of the reconnectAttempts counter
MaxSendSockets == 2   \* WebSocket objects created over one run that sends messages
MaxSendCalls == 2     \* sendMessage() calls over one run that also receives messages

VARIABLES
    options,            \* this.options, fixed by the constructor
    ws,                 \* this.ws: 0 (null) or the index of a socket
    sockets,            \* readyState of every WebSocket created so far
    eventListeners,     \* event names that have a listener registered
    messageCache,       \* this.messageCache
    reconnectAttempts,  \* this.reconnectAttempts
    reconnectTimeout,   \* delay of the armed reconnect timer, 0 when none is pending
    sendMessageQueue,   \* this.sendMessageQueue: set of [key, id, cb]
    isHandleClose,      \* this.isHandleClose
    timeoutGuards,      \* number of pending connect() timeout callbacks
    drainTimers,        \* pending sendNextMessage callbacks: set of [drain, index]
    keysGenerated,      \* number of keys generateUniqueKey has returned
    \* ---- observation (history) variables, never read by the program ----
    sends,              \* the caller's sendMessage() calls, by id
    calls,              \* per send id, how often its callback ran, by outcome
    sent,               \* everything handed to WebSocket.send, in order
    drainStart,         \* per socket, the cache as it was when its open started a drain
    released,           \* close()/destroy() was called and connect() not since
    userClosed,         \* sockets that close() released
    opened,             \* sockets whose open event was handled
    destroyed,          \* destroy() was called
    armedWith,          \* the attempt count the armed reconnect timer's delay was computed from
    origin,             \* per socket: armedWith of the timer that created it, -1 after connect()
    last                \* the last step: operation, socket, effects in program order

vars == <<options, ws, sockets, eventListeners, messageCache, reconnectAttempts,
          reconnectTimeout, sendMessageQueue, isHandleClose, timeoutGuards,
          drainTimers, keysGenerated, sends, calls, sent, drainStart, released,
          userClosed, opened, destroyed, armedWith, origin, last>>

program == <<options, ws, sockets, eventListeners, messageCache, reconnectAttempts,
             reconnectTimeout, sendMessageQueue, isHandleClose, timeoutGuards,
             drainTimers, keysGenerated>>

history == <<sends, calls, sent, drainStart, released, userClosed, opened, destroyed,
             armedWith, origin>>

Events == {"open", "close", "message", "error"}

\* A key the caller may put under uniqueKey that generateUniqueKey never returns.
ForeignKey == 0 - 1

Min(a, b) == IF a < b THEN a ELSE b

RECURSIVE Pow2(_)
Pow2(n) == IF n = 0 THEN 1 ELSE 2 * Pow2(n - 1)

\* One effect of a handler, in the order the code performs it.
Fx(e, x, y, z) == [e |-> e, x |-> x, y |-> y, z |-> z]

Step(op, s, fx) == [op |-> op, sock |-> s, fx |-> fx]

HasFx(fx, e) == \E i \in 1..Len(fx) : fx[i].e = e

IsOpen(w, rs) == w # 0 /\ rs[w] = "OPEN"

\* emit(event, data): the listeners of the event run, when there are any.
Emit(event) == <<Fx("emit_" \o event, IF event \in eventListeners THEN 1 ELSE 0, 0, 0)>>

\* WebSocket.close(): a connecting or open socket starts closing; otherwise a no-op.
WsClose(rs, s) ==
    IF rs[s] \in {"CONNECTING", "OPEN"} THEN [rs EXCEPT ![s] = "CLOSING"] ELSE rs

\* Math.min(reconnectInterval * Math.pow(2, reconnectAttempts), reconnectMaxInterval)
exponentialBackoff(attempts) ==
    Min(options.reconnectInterval * Pow2(attempts), options.reconnectMaxInterval)

\* reconnect(): the timer it leaves armed and what it did.
reconnect(w, rs, attempts, timer) ==
    IF w = 0 THEN [timer |-> timer, fx |-> <<>>]
    ELSE IF options.reconnectMaxTimes # 0 /\ attempts >= options.reconnectMaxTimes
    THEN [timer |-> timer, fx |-> <<Fx("throw", 0, 0, 0)>>]
    ELSE IF rs[w] \in {"CONNECTING", "OPEN"}
    THEN [timer |-> 0, fx |-> IF timer # 0 THEN <<Fx("clearTimeout", timer, 0, 0)>> ELSE <<>>]
    ELSE [timer |-> exponentialBackoff(attempts),
          fx |-> (IF timer # 0 THEN <<Fx("clearTimeout", timer, 0, 0)>> ELSE <<>>)
                 \o <<Fx("arm", exponentialBackoff(attempts), attempts, 0)>>]

\* closeHandler's condition for calling reconnect().
closeReconnects == options.reconnect /\ ~isHandleClose


\* ---------------------------------------------------------------- sendMessage

Item(id, kind, ck, cb) == [id |-> id, kind |-> kind, ck |-> ck, cb |-> cb]

\* Array.prototype.shift(): drops the first element, a no-op on an empty array.
Shift(cache) == IF Len(cache) = 0 THEN cache ELSE Tail(cache)

\* sendMessage, lines 216-222: the cache after the item was put in it.
cachePush(cache, item) ==
    IF Len(cache) < options.maxCacheMessage
    THEN Append(cache, item)
    ELSE Append(Shift(cache), item)

\* sendMessage, line 215: the message goes to the cache.
cacheCondition(w) == options.cacheMessage /\ w = 0

\* A not-connected test that forgets the readyState.
notConnectedNullOnly(w, rs) == w = 0

\* sendMessage, line 226: the send fails as not connected.
notConnected(w, rs) == w = 0 \/ rs[w] # "OPEN"

\* A text test that never succeeds: every payload is handled as an object.
isStringNever(kind) == FALSE

\* sendMessage, line 236: the payload is plain text.
isString(kind) == kind = "string"

\* Object.assign({}, {[uniqueKey]: key}, data): the value of the uniqueKey field of
\* the message, where callerKey is the value data has under uniqueKey (0: none).
objMsgKey(key, callerKey) == IF callerKey # 0 THEN callerKey ELSE key

\* this.sendMessageQueue[key] = {message, callback}
queuePut(queue, key, item) ==
    {q \in queue : q.key # key}
        \cup {[key |-> key, id |-> item.id, cb |-> item.cb, wire |-> objMsgKey(key, item.ck)]}

\* sendMessage(data, callback) with this.ws = w and readyStates rs: the cache, the pending table, the
\* number of generated keys and the effects, in program order.
sendMessage(w, rs, cache, queue, nkeys, item) ==
    LET cache1 == IF cacheCondition(w) THEN cachePush(cache, item) ELSE cache
        fx1 == IF cacheCondition(w) THEN <<Fx("push", 0, item.id, 0)>> ELSE <<>>
    IN  IF notConnected(w, rs)
        THEN [cache |-> cache1, queue |-> queue, keys |-> nkeys,
              fx |-> fx1 \o (IF item.cb THEN <<Fx("cb_notConnected", 0, item.id, 0)>> ELSE <<>>)]
        ELSE IF item.kind \notin {"string", "object"}
        THEN [cache |-> cache1, queue |-> queue, keys |-> nkeys,
              fx |-> fx1 \o <<Fx("throw", 0, item.id, 0)>>]
        ELSE IF isString(item.kind)
        THEN [cache |-> cache1, queue |-> queue, keys |-> nkeys,
              fx |-> fx1 \o <<Fx("wssend", w, item.id, 0)>>]
        ELSE [cache |-> cache1, queue |-> queuePut(queue, nkeys + 1, item), keys |-> nkeys + 1,
              fx |-> fx1 \o <<Fx("register", 0, item.id, nkeys + 1),
                              Fx("wssend", w, item.id, objMsgKey(nkeys + 1, item.ck))>>]

\* ---------------------------------------------------------------- observation

CountFx(fx, e, id) == Cardinality({k \in 1..Len(fx) : fx[k].e = e /\ fx[k].y = id})

NoCalls == [nc |-> 0, ok |-> 0, no |-> 0]

\* The callback counters after the effects fx.
Called(c, fx) ==
    [i \in DOMAIN c |-> [nc |-> c[i].nc + CountFx(fx, "cb_notConnected", i),
                         ok |-> c[i].ok + CountFx(fx, "cb_success", i),
                         no |-> c[i].no + CountFx(fx, "cb_notOpen", i)]]

\* The wire log after the effects fx of a step made by drain `via` (0: no drain).
Wired(log, fx, via) ==
    LET w == SelectSeq(fx, LAMBDA f : f.e = "wssend")
    IN  log \o [k \in 1..Len(w) |-> [sock |-> w[k].x, id |-> w[k].y, key |-> w[k].z, via |-> via]]


\* ---------------------------------------------------------------- sendCachedMessages

\* One run of sendNextMessage with the closure's index: what sendMessage did and the
\* index of the callback it scheduled (-1: none; a throw leaves the function early).
sendNextMessage(w, rs, cache, queue, nkeys, index) ==
    IF index < Len(cache)
    THEN LET r == sendMessage(w, rs, cache, queue, nkeys, cache[index + 1])
         IN  IF HasFx(r.fx, "throw")
             THEN [cache |-> r.cache, queue |-> r.queue, keys |-> r.keys, fx |-> r.fx,
                   next |-> 0 - 1]
             ELSE [cache |-> r.cache, queue |-> r.queue, keys |-> r.keys,
                   fx |-> r.fx \o <<Fx("setTimeout", 100, index + 1, 0)>>,
                   next |-> index + 1]
    ELSE [cache |-> cache, queue |-> queue, keys |-> nkeys, fx |-> <<>>, next |-> 0 - 1]

\* ---------------------------------------------------------------- the operations

\* The configurations a run may be constructed with.
OptionsOf(timeouts, reconnects, intervals, maxTimes, caches, maxCaches) ==
    [timeout : timeouts, reconnect : reconnects, reconnectInterval : intervals,
     reconnectMaxInterval : {10000}, reconnectMaxTimes : maxTimes,
     cacheMessage : caches, maxCacheMessage : maxCaches]

\* The state the constructor leaves, for a configuration out of `configs`.
InitWith(configs) ==
    /\ options \in configs
    /\ ws = 0
    /\ sockets = <<>>
    /\ eventListeners = {}
    /\ messageCache = <<>>
    /\ reconnectAttempts = 0
    /\ reconnectTimeout = 0
    /\ sendMessageQueue = {}
    /\ isHandleClose = FALSE
    /\ timeoutGuards = 0
    /\ drainTimers = {}
    /\ keysGenerated = 0
    /\ sends = <<>>
    /\ calls = <<>>
    /\ sent = <<>>
    /\ drainStart = <<>>
    /\ released = FALSE
    /\ userClosed = {}
    /\ opened = {}
    /\ destroyed = FALSE
    /\ armedWith = 0
    /\ origin = <<>>
    /\ last = Step("constructor", 0, <<>>)

\* on(event, listener)
On(event) ==
    /\ event \notin eventListeners
    /\ eventListeners' = eventListeners \cup {event}
    /\ last' = Step("on", 0, <<>>)
    /\ UNCHANGED <<options, ws, sockets, messageCache, reconnectAttempts, reconnectTimeout,
                   sendMessageQueue, isHandleClose, timeoutGuards, drainTimers,
                   keysGenerated, history>>

\* connect()
Connect ==
    IF ws # 0
    THEN /\ last' = Step("connect", 0, <<Fx("warn", 0, 0, 0)>>)
         /\ UNCHANGED <<program, history>>
    ELSE /\ Len(sockets) < MaxSockets
         /\ sockets' = Append(sockets, "CONNECTING")
         /\ ws' = Len(sockets) + 1
         /\ drainStart' = Append(drainStart, <<>>)
         /\ timeoutGuards' = IF options.timeout # 0 THEN timeoutGuards + 1 ELSE timeoutGuards
         /\ released' = FALSE
         /\ origin' = Append(origin, 0 - 1)
         /\ last' = Step("connect", Len(sockets) + 1,
                         <<Fx("create", Len(sockets) + 1, 0, 0)>>
                         \o (IF options.timeout # 0
                             THEN <<Fx("setTimeout", options.timeout, 0, 0)>> ELSE <<>>))
         /\ UNCHANGED <<options, eventListeners, messageCache, reconnectAttempts,
                        reconnectTimeout, sendMessageQueue, isHandleClose, drainTimers,
                        keysGenerated, sends, calls, sent, userClosed, opened, destroyed,
                        armedWith>>

\* The callback connect() passed to setTimeout (lines 59-69).
TimeoutFires ==
    /\ timeoutGuards > 0
    /\ timeoutGuards' = timeoutGuards - 1
    /\ IF isHandleClose \/ ws = 0 \/ sockets[ws] = "OPEN"
       THEN /\ last' = Step("timeout", ws, <<>>)
            /\ UNCHANGED <<sockets, reconnectAttempts, reconnectTimeout, armedWith>>
       ELSE LET rs == WsClose(sockets, ws)
                attempts == IF options.reconnect
                            THEN reconnectAttempts + 1 ELSE reconnectAttempts
                r == IF options.reconnect
                     THEN reconnect(ws, rs, attempts, reconnectTimeout)
                     ELSE [timer |-> reconnectTimeout, fx |-> <<>>]
            IN  /\ attempts <= MaxAttempts
                /\ sockets' = rs
                /\ reconnectAttempts' = attempts
                /\ reconnectTimeout' = r.timer
                /\ armedWith' = IF HasFx(r.fx, "arm") THEN attempts ELSE armedWith
                /\ last' = Step("timeout", ws,
                                <<Fx("wsclose", ws, 0, 0)>> \o Emit("error") \o r.fx)
    /\ UNCHANGED <<options, ws, eventListeners, messageCache, sendMessageQueue,
                   isHandleClose, drainTimers, keysGenerated, sends, calls, sent,
                   drainStart, released, userClosed, opened, destroyed, origin>>

\* The callback reconnect() passed to setTimeout (lines 93-97).
ReconnectTimerFires ==
    /\ reconnectTimeout # 0
    /\ Len(sockets) < MaxSockets
    /\ reconnectAttempts < MaxAttempts
    /\ reconnectTimeout' = 0
    /\ sockets' = Append(sockets, "CONNECTING")
    /\ ws' = Len(sockets) + 1
    /\ drainStart' = Append(drainStart, <<>>)
    /\ reconnectAttempts' = reconnectAttempts + 1
    /\ origin' = Append(origin, armedWith)
    /\ last' = Step("reconnectTimer", Len(sockets) + 1, <<Fx("create", Len(sockets) + 1, 0, 0)>>)
    /\ UNCHANGED <<options, eventListeners, messageCache, sendMessageQueue, isHandleClose,
                   timeoutGuards, drainTimers, keysGenerated, sends, calls, sent,
                   released, userClosed, opened, destroyed, armedWith>>

\* Socket s fires open: openHandler, with the first run of sendNextMessage.
SocketOpen(s) ==
    /\ sockets[s] = "CONNECTING"
    /\ LET rs == [sockets EXCEPT ![s] = "OPEN"]
           r == sendNextMessage(ws, rs, messageCache, sendMessageQueue, keysGenerated, 0)
       IN  /\ sockets' = rs
           /\ isHandleClose' = FALSE
           /\ reconnectAttempts' = 0
           /\ messageCache' = r.cache
           /\ sendMessageQueue' = r.queue
           /\ keysGenerated' = r.keys
           /\ drainTimers' = IF r.next < 0 THEN drainTimers
                             ELSE drainTimers \cup {[drain |-> s, index |-> r.next]}
           /\ calls' = Called(calls, r.fx)
           /\ sent' = Wired(sent, r.fx, s)
           /\ drainStart' = [drainStart EXCEPT ![s] = messageCache]
           /\ opened' = opened \cup {s}
           /\ last' = Step("open", s, Emit("open") \o r.fx)
    /\ UNCHANGED <<options, ws, eventListeners, reconnectTimeout, timeoutGuards, sends,
                   released, userClosed, destroyed, armedWith, origin>>

\* Socket s fires close, after an error event when the connection failed:
\* errorHandler, then closeHandler.
SocketClose(s, failed) ==
    /\ sockets[s] \in {"CONNECTING", "OPEN", "CLOSING"}
    /\ LET rs == [sockets EXCEPT ![s] = "CLOSED"]
           r == IF closeReconnects
                THEN reconnect(ws, rs, reconnectAttempts, reconnectTimeout)
                ELSE [timer |-> reconnectTimeout, fx |-> <<>>]
       IN  /\ sockets' = rs
           /\ reconnectTimeout' = r.timer
           /\ armedWith' = IF HasFx(r.fx, "arm") THEN reconnectAttempts ELSE armedWith
           /\ last' = Step("close", s,
                           (IF failed THEN Emit("error") ELSE <<>>) \o Emit("close") \o r.fx)
    /\ UNCHANGED <<options, ws, eventListeners, messageCache, reconnectAttempts,
                   sendMessageQueue, isHandleClose, timeoutGuards, drainTimers,
                   keysGenerated, sends, calls, sent, drainStart, released, userClosed,
                   opened, destroyed, origin>>


\* messageHandler, lines 129-142, for a message whose uniqueKey field is key: the
\* pending table afterwards and the effects. Reading .callback of a missing entry
\* raises a TypeError, which the handler's catch logs.
resolve(queue, key, connected) ==
    LET hit == {q \in queue : q.key = key}
    IN  IF hit = {}
        THEN [queue |-> queue, fx |-> <<Fx("typeError", 0, 0, key)>>]
        ELSE LET q == CHOOSE e \in hit : TRUE
             IN  IF q.cb
                 THEN [queue |-> queue \ hit,
                       fx |-> <<Fx(IF connected THEN "cb_success" ELSE "cb_notOpen",
                                   0, q.id, key)>>]
                 ELSE [queue |-> queue, fx |-> <<>>]

\* Socket s fires message with data whose uniqueKey field is key (0: the data is not
\* JSON, or has no such field): messageHandler.
SocketMessage(s, key) ==
    /\ sockets[s] = "OPEN"
    /\ LET r == IF key = 0 THEN [queue |-> sendMessageQueue, fx |-> <<>>]
                ELSE resolve(sendMessageQueue, key, IsOpen(ws, sockets))
       IN  /\ sendMessageQueue' = r.queue
           /\ calls' = Called(calls, r.fx)
           /\ last' = Step("message", s,
                           Emit("message") \o <<Fx("parse", 0, 0, key)>> \o r.fx)
    /\ UNCHANGED <<options, ws, sockets, eventListeners, messageCache, reconnectAttempts,
                   reconnectTimeout, isHandleClose, timeoutGuards, drainTimers,
                   keysGenerated, sends, sent, drainStart, released, userClosed, opened,
                   destroyed, armedWith, origin>>

\* The caller's sendMessage(data, callback): data of the given kind, carrying
\* callerKey under uniqueKey (0: no such field), with or without a callback.
SendMessage(kind, callerKey, cb) ==
    /\ Len(sends) < MaxSends
    /\ LET id == Len(sends) + 1
           item == Item(id, kind, callerKey, cb)
           r == sendMessage(ws, sockets, messageCache, sendMessageQueue, keysGenerated, item)
       IN  /\ messageCache' = r.cache
           /\ sendMessageQueue' = r.queue
           /\ keysGenerated' = r.keys
           /\ sends' = Append(sends, [item |-> item, open |-> IsOpen(ws, sockets),
                                      cached |-> cacheCondition(ws), after |-> destroyed])
           /\ calls' = Called(Append(calls, NoCalls), r.fx)
           /\ sent' = Wired(sent, r.fx, 0)
           /\ last' = Step("sendMessage", ws, r.fx)
    /\ UNCHANGED <<options, ws, sockets, eventListeners, reconnectAttempts,
                   reconnectTimeout, isHandleClose, timeoutGuards, drainTimers,
                   drainStart, released, userClosed, opened, destroyed, armedWith, origin>>

\* A sendNextMessage callback scheduled by the drain d fires.
DrainStep(d) ==
    \E t \in drainTimers :
        /\ t.drain = d
        /\ LET r == sendNextMessage(ws, sockets, messageCache, sendMessageQueue,
                                    keysGenerated, t.index)
           IN  /\ messageCache' = r.cache
               /\ sendMessageQueue' = r.queue
               /\ keysGenerated' = r.keys
               /\ drainTimers' = (drainTimers \ {t})
                                 \cup (IF r.next < 0 THEN {}
                                       ELSE {[drain |-> d, index |-> r.next]})
               /\ calls' = Called(calls, r.fx)
               /\ sent' = Wired(sent, r.fx, d)
               /\ last' = Step("drain", d, r.fx)
        /\ UNCHANGED <<options, ws, sockets, eventListeners, reconnectAttempts,
                       reconnectTimeout, isHandleClose, timeoutGuards, sends, drainStart,
                       released, userClosed, opened, destroyed, armedWith, origin>>

\* close()
Close ==
    /\ isHandleClose' = TRUE
    /\ sockets' = IF ws # 0 THEN WsClose(sockets, ws) ELSE sockets
    /\ ws' = 0
    /\ released' = TRUE
    /\ userClosed' = IF ws # 0 THEN userClosed \cup {ws} ELSE userClosed
    /\ last' = Step("closeCall", ws, IF ws # 0 THEN <<Fx("wsclose", ws, 0, 0)>> ELSE <<>>)
    /\ UNCHANGED <<options, eventListeners, messageCache, reconnectAttempts,
                   reconnectTimeout, sendMessageQueue, timeoutGuards, drainTimers,
                   keysGenerated, sends, calls, sent, drainStart, opened, destroyed,
                   armedWith, origin>>

\* destroy(): removeAllListeners(), close(), this.ws = null
Destroy ==
    /\ eventListeners' = {}
    /\ isHandleClose' = TRUE
    /\ sockets' = IF ws # 0 THEN WsClose(sockets, ws) ELSE sockets
    /\ ws' = 0
    /\ released' = TRUE
    /\ destroyed' = TRUE
    /\ userClosed' = IF ws # 0 THEN userClosed \cup {ws} ELSE userClosed
    /\ last' = Step("destroy", ws, IF ws # 0 THEN <<Fx("wsclose", ws, 0, 0)>> ELSE <<>>)
    /\ UNCHANGED <<options, messageCache, reconnectAttempts, reconnectTimeout,
                   sendMessageQueue, timeoutGuards, drainTimers, keysGenerated, sends,
                   calls, sent, drainStart, opened, armedWith, origin>>

\* ---------------------------------------------------------------- specifications

Sockets == 1..Len(sockets)

\* The connection life cycle: no message is sent or received.
LifeOptions == OptionsOf({0, 5000}, BOOLEAN, {1000, 5000}, {0, 2}, {FALSE}, {100})

Init == InitWith(LifeOptions)

Next ==
    \/ On("error")
    \/ Connect
    \/ TimeoutFires
    \/ ReconnectTimerFires
    \/ \E s \in Sockets : SocketOpen(s)
    \/ \E s \in Sockets, failed \in BOOLEAN : SocketClose(s, failed)
    \/ Close
    \/ Destroy

Spec == Init /\ [][Next]_vars

\* The values a uniqueKey field can carry: a key generated so far or a foreign one.
KnownKeys == {ForeignKey} \cup 1..keysGenerated

\* Sending and receiving without the cache.
SendOptions == OptionsOf({0}, {TRUE}, {1000}, {0}, {FALSE}, {100})

InitSend == InitWith(SendOptions)

SendStep ==
    \/ Connect
    \/ ReconnectTimerFires
    \/ \E s \in Sockets : SocketOpen(s)
    \/ \E s \in Sockets : SocketClose(s, FALSE)
    \/ \E s \in Sockets, key \in {0} \cup KnownKeys : SocketMessage(s, key)
    \/ \E kind \in {"string", "number"}, cb \in BOOLEAN : SendMessage(kind, 0, cb)
    \/ \E callerKey \in {0} \cup KnownKeys, cb \in BOOLEAN :
          SendMessage("object", callerKey, cb)
    \/ Close
    \/ Destroy

NextSend == SendStep /\ Len(sockets') <= MaxSendSockets /\ Len(sends') <= MaxSendCalls

SpecSend == InitSend /\ [][NextSend]_vars

\* Sending with the cache enabled, and the drains that replay it.
CacheOptions == OptionsOf({0}, {TRUE}, {1000}, {0}, {TRUE}, {0, 1, 2, 3})

InitCache == InitWith(CacheOptions)

CacheStep ==
    \/ Connect
    \/ ReconnectTimerFires
    \/ \E s \in Sockets : SocketOpen(s)
    \/ \E s \in Sockets : SocketClose(s, FALSE)
    \/ \E kind \in {"string", "object", "number"} : SendMessage(kind, 0, TRUE)
    \/ \E d \in Sockets : DrainStep(d)
    \/ Close

NextCache == CacheStep /\ Len(sockets') <= MaxSendSockets

SpecCache == InitCache /\ [][NextCache]_vars


\* Sending with the cache enabled, the drains that replay it and the responses to the
\* replayed messages.
ReplayOptions == OptionsOf({0}, {TRUE}, {1000}, {0}, {TRUE}, {1, 2})

InitReplay == InitWith(ReplayOptions)

ReplayStep ==
    \/ Connect
    \/ ReconnectTimerFires
    \/ \E s \in Sockets : SocketOpen(s)
    \/ \E s \in Sockets : SocketClose(s, FALSE)
    \/ \E s \in Sockets, key \in 1..keysGenerated : SocketMessage(s, key)
    \/ \E kind \in {"string", "object"} : SendMessage(kind, 0, TRUE)
    \/ \E d \in Sockets : DrainStep(d)
    \/ Close

NextReplay ==
    ReplayStep /\ Len(sockets') <= MaxSendSockets /\ Len(sends') <= MaxSendCalls

SpecReplay == InitReplay /\ [][NextReplay]_vars


\* ---------------------------------------------------------------- claims

\* C1: with reconnect enabled, the close event of a transport that close() released
\* arms no reconnect timer and creates no transport.
C1_CloseEventAfterCloseArmsNothing ==
    (options.reconnect /\ last.op = "close" /\ last.sock \in userClosed)
        => (~HasFx(last.fx, "arm") /\ ~HasFx(last.fx, "create"))


\* C2: after close() or destroy(), and until the next connect(), no transport is
\* created.
C2_NoTransportWhileReleased ==
    released => (ws = 0 /\ ~HasFx(last.fx, "create"))

\* The effects of the last step that armed the reconnect timer.
Arms == {i \in 1..Len(last.fx) : last.fx[i].e = "arm"}

\* C4: handling an open event leaves the attempt counter at 0, and when a connection
\* that had opened is lost (not through close()) the retry armed by its close event
\* uses the base interval.
C4_OpenResetsBackoff ==
    /\ last.op = "open" => reconnectAttempts = 0
    /\ (last.op = "close" /\ last.sock \in opened /\ last.sock \notin userClosed)
          => \A i \in Arms :
                last.fx[i].x = Min(options.reconnectInterval, options.reconnectMaxInterval)


\* The delays of the example configuration, by attempt count.
ExampleDelays == <<1000, 2000, 4000, 8000, 10000>>

\* C5: every reconnect timer is armed with min(interval * 2^attempts, maxInterval),
\* never more than maxInterval; the attempt count is 0 for the retry armed when an
\* open connection is lost, and one more than that of the previous retry when the
\* transport that retry created fails; with interval 1000 and maximum 10000 the
\* delays are 1000, 2000, 4000, 8000, 10000.
C5_BackoffDelays ==
    /\ \A i \in Arms :
          /\ last.fx[i].x = Min(options.reconnectInterval * Pow2(last.fx[i].y),
                                options.reconnectMaxInterval)
          /\ last.fx[i].x <= options.reconnectMaxInterval
          /\ last.fx[i].y = reconnectAttempts
          /\ (options.reconnectInterval = 1000 /\ last.fx[i].y < Len(ExampleDelays))
                => last.fx[i].x = ExampleDelays[last.fx[i].y + 1]
    /\ (last.op = "close" /\ last.sock \notin userClosed)
          => \A i \in Arms :
                /\ last.sock \in opened => last.fx[i].y = 0
                /\ (last.sock \notin opened /\ origin[last.sock] >= 0)
                      => last.fx[i].y = origin[last.sock] + 1


SendIds == 1..Len(sends)

\* The sends C3 is about: a structured payload with a callback, made with the cache
\* disabled while there was no transport or the transport was not open.
FailedObjectSend(id) ==
    /\ ~options.cacheMessage
    /\ sends[id].item.kind = "object"
    /\ sends[id].item.cb
    /\ ~sends[id].open

Registered == {i \in 1..Len(last.fx) : last.fx[i].e = "register"}
WireSends == {i \in 1..Len(last.fx) : last.fx[i].e = "wssend"}
Callbacks == {i \in 1..Len(last.fx) :
                 last.fx[i].e \in {"cb_notConnected", "cb_success", "cb_notOpen"}}

\* The sends whose message went to a transport carrying key under uniqueKey.
WiredWith(key) == {sent[i].id : i \in {j \in 1..Len(sent) : sent[j].key = key}}

\* C8: an inbound message whose uniqueKey field is the key that went out with a
\* structured send S invokes the callback of S with success, and no callback of a
\* send that went out with another key.
C8_ResponseResolvesItsSend ==
    (last.op = "message" /\ last.fx[2].z # 0)
        => /\ \A id \in WiredWith(last.fx[2].z) :
                 sends[id].item.cb => (calls[id].ok >= 1 /\ calls[id].no = 0)
           /\ \A i \in Callbacks :
                 /\ last.fx[i].e = "cb_success"
                 /\ last.fx[i].y \in WiredWith(last.fx[2].z)

\* C9: the uniqueKey field of a structured message handed to the transport is the
\* generated key under which its callback was registered.
C9_WireKeyIsRegisteredKey ==
    \A i \in Registered : \A j \in WireSends : last.fx[j].z = last.fx[i].z

\* The sends C10 is about: raw text with a callback.
TextSendWithCallback(id) == sends[id].item.kind = "string" /\ sends[id].item.cb

\* C10 as stated: the callback of a raw-text send is never invoked.
C10_TextCallbackNeverInvoked ==
    \A id \in SendIds : TextSendWithCallback(id) => calls[id] = NoCalls

\* C10, amended: the callback of a raw-text send is never invoked with a response,
\* and never at all when the send found the transport open; it is invoked with the
\* not-connected failure when the send found no transport or a transport not open.
C10_TextCallbackOnlyNotConnected ==
    \A id \in SendIds :
        TextSendWithCallback(id)
           => /\ calls[id].ok = 0
              /\ calls[id].no = 0
              /\ sends[id].open => calls[id].nc = 0
              /\ ~sends[id].open => calls[id].nc >= 1

C10_Witness ==
    \E id \in SendIds :
        /\ TextSendWithCallback(id)
        /\ sends[id].open
        /\ \E i \in 1..Len(sent) : sent[i].id = id
        /\ last.op = "reconnectTimer"


\* The last n elements of a sequence.
LastN(seq, n) == SubSeq(seq, Len(seq) - n + 1, Len(seq))

\* The payloads of the caller's sends, in call order.
Payloads == [id \in SendIds |-> sends[id].item]

\* C6: with the cache enabled, after k sendMessage() calls all made while there was
\* no transport, the cache holds the last min(k, maxCacheMessage) payloads in call
\* order, so never more than maxCacheMessage.
C6_CacheKeepsNewest ==
    (last.op = "sendMessage" /\ \A id \in SendIds : sends[id].cached)
        => /\ messageCache = LastN(Payloads, Min(Len(sends), options.maxCacheMessage))
           /\ Len(messageCache) <= options.maxCacheMessage


\* The ids of a sequence of cached items.
Ids(items) == [i \in 1..Len(items) |-> items[i].id]

\* What the drain started by the open of socket d handed to that socket, in order.
Drained(d) == Ids(SelectSeq(sent, LAMBDA m : m.via = d /\ m.sock = d))

\* C7: while the transport whose open started a drain is still open, the drain has
\* handed it the messages the cache held at the open, oldest first, as far as its
\* steps went, and all of them once no step is pending; each step hands over at most
\* one message and schedules the next step after it, and the first one comes after
\* the open event was emitted.
C7_DrainInOrder ==
    /\ \A d \in opened :
          sockets[d] = "OPEN"
             => IF \E t \in drainTimers : t.drain = d
                THEN \A t \in drainTimers :
                        t.drain = d
                           => /\ t.index <= Len(drainStart[d])
                              /\ Drained(d) = Ids(SubSeq(drainStart[d], 1, t.index))
                ELSE Drained(d) = Ids(drainStart[d])
    /\ last.op \in {"open", "drain"}
          => /\ Cardinality(WireSends) <= 1
             /\ \A i \in WireSends :
                   /\ i < Len(last.fx)
                   /\ last.fx[i + 1].e = "setTimeout"
                   /\ last.op = "open" => (last.fx[1].e = "emit_open" /\ i > 1)


\* C11: with the cache enabled, a sendMessage() made while there is no transport puts
\* the message in the cache and does nothing else: its callback is not invoked with
\* the not-connected failure, then or later while the message waits in the cache.
C11_CachedSendIsDeferred ==
    /\ (last.op = "sendMessage" /\ sends[Len(sends)].cached)
          => last.fx = <<Fx("push", 0, Len(sends), 0)>>
    /\ \A id \in SendIds : sends[id].cached => calls[id].nc = 0


\* C12: with reconnectMaxTimes = M > 0, a close event or a connect timeout handled
\* with the attempt counter at M or more arms no retry, and no handler or timer
\* callback throws: the exhaustion reaches the listeners as an error event.
C12_ExhaustionIsEmitted ==
    (options.reconnectMaxTimes > 0 /\ last.op \in {"close", "timeout"})
        => /\ ~HasFx(last.fx, "throw")
           /\ reconnectAttempts >= options.reconnectMaxTimes => ~HasFx(last.fx, "arm")


\* C13: with reconnect enabled and no limit of attempts, the close event of the
\* current transport arms a reconnect timer. (this.ws is that transport only when
\* neither close() nor destroy() was called since it was created.)
C13_LostTransportArmsRetry ==
    (options.reconnect /\ options.reconnectMaxTimes = 0
        /\ last.op = "close" /\ last.sock = ws)
        => (HasFx(last.fx, "arm") /\ reconnectTimeout # 0)


\* The transports that are connecting or open.
Live == {s \in Sockets : sockets[s] \in {"CONNECTING", "OPEN"}}

\* C14: at most one transport is connecting or open at any time.
C14_AtMostOneLiveTransport == Cardinality(Live) <= 1


\* C15: once every transport created by connect() has opened, a timeout guard that
\* fires does nothing: it closes no transport, emits no error and leaves the attempt
\* counter alone.
C15_GuardClearedByOpen ==
    (last.op = "timeout" /\ \A s \in Sockets : origin[s] = 0 - 1 => s \in opened)
        => last.fx = <<>>


\* How often the message of send id was handed to a transport.
TimesSent(id) == Cardinality({i \in 1..Len(sent) : sent[i].id = id})

\* C16: a message that was put in the cache is handed to a transport at most once.
C16_CachedMessageSentOnce ==
    \A id \in SendIds : sends[id].cached => TimesSent(id) <= 1


\* The drains that have a step pending.
DrainsInProgress == {t.drain : t \in drainTimers}

\* C17: at most one drain of the cache is in progress at any time.
C17_AtMostOneDrain == Cardinality(DrainsInProgress) <= 1


\* C20: a step of a drain (the one run by the open handler or a later one) puts
\* nothing in the cache.
C20_DrainLeavesCache ==
    last.op \in {"open", "drain"} => ~HasFx(last.fx, "push")


\* C18: after a message whose uniqueKey field is K was handled, the pending table has
\* no entry under K, whether or not the entry carried a callback; and when there was
\* no entry under K, handling the message changes nothing of the program's state.
C18_ResponseRemovesEntry ==
    [][(last'.op = "message" /\ last'.fx[2].z # 0)
          => /\ \A q \in sendMessageQueue' : q.key # last'.fx[2].z
             /\ (\A q \in sendMessageQueue : q.key # last'.fx[2].z) => UNCHANGED program]_vars


\* How often the callback of send id was invoked, whatever the outcome.
TimesCalled(id) == calls[id].nc + calls[id].ok + calls[id].no

\* C19: the callback passed to one sendMessage() call is invoked at most once.
C19_CallbackAtMostOnce ==
    \A id \in SendIds : sends[id].item.cb => TimesCalled(id) <= 1

====
